---- MODULE Spec2Model ----
(***************************************************************************)
(* A model of the schema-matching loader of dashboard_app.py: the name     *)
(* normalizer (_normalize_col_name, _canonical_key), the alias resolver    *)
(* (_match_required_fields) and the memoized binder (load_data).           *)
(*                                                                         *)
(* A Python str is a sequence of one-character strings, so that strip,     *)
(* lower, replace and the isalnum filter are computed character by         *)
(* character as the code computes them.                                    *)
(***************************************************************************)
EXTENDS Integers, Sequences, FiniteSets, TLC

VARIABLES
  file,      \* the CSV file on disk, as pd.read_csv would find it
  cache,     \* the st.cache_data entry of load_data (it takes no argument)
  ret,       \* what the last call of load_data gave its caller
  columns,   \* the column list handed to _match_required_fields
  result,    \* what _match_required_fields returned for it
  file_at_call, \* history: the file as it was when load_data was last called
  nameA,     \* a raw column name
  nameB      \* a variant of nameA

vars == <<file, cache, ret, file_at_call, columns, result, nameA, nameB>>

----------------------------------------------------------------------------
(* Bounds of the model. *)

\* Longest raw name enumerated for the canonical-key law.
MaxNameLen == 3

\* Longest column list handed directly to the resolver.
MaxCols == 2

\* Most data rows of an enumerated CSV file.
MaxRows == 2

----------------------------------------------------------------------------
(* Python's str operations, on sequences of characters. *)

UpperChars == <<"A", "B", "C", "D", "E", "F", "G", "H", "I", "J", "K", "L", "M",
                "N", "O", "P", "Q", "R", "S", "T", "U", "V", "W", "X", "Y", "Z">>

LowerChars == <<"a", "b", "c", "d", "e", "f", "g", "h", "i", "j", "k", "l", "m",
                "n", "o", "p", "q", "r", "s", "t", "u", "v", "w", "x", "y", "z">>

DigitChars == {"0", "1", "2", "3", "4", "5", "6", "7", "8", "9"}

Range(s) == {s[i] : i \in DOMAIN s}

UpperSet == Range(UpperChars)

LowerSet == Range(LowerChars)

IsUpper(ch) == ch \in UpperSet

IsLower(ch) == ch \in LowerSet

LowerOf == [ch \in UpperSet |->
              LowerChars[CHOOSE i \in DOMAIN UpperChars : UpperChars[i] = ch]]

UpperOf == [ch \in LowerSet |->
              UpperChars[CHOOSE i \in DOMAIN LowerChars : LowerChars[i] = ch]]

\* str.lower() on one character.
char_lower(ch) == IF IsUpper(ch) THEN LowerOf[ch] ELSE ch

\* str.upper() on one character; used only to build variants of a name.
char_upper(ch) == IF IsLower(ch) THEN UpperOf[ch] ELSE ch

\* ch.isalnum()
isalnum(ch) == IsUpper(ch) \/ IsLower(ch) \/ ch \in DigitChars

\* ch.isspace(), for the characters the model enumerates.
isspace(ch) == ch = " "

str_lower(s) == [i \in DOMAIN s |-> char_lower(s[i])]

RECURSIVE lstrip(_)
lstrip(s) ==
  IF s # <<>> /\ isspace(Head(s)) THEN lstrip(Tail(s)) ELSE s

RECURSIVE rstrip(_)
rstrip(s) ==
  IF s # <<>> /\ isspace(s[Len(s)])
  THEN rstrip(SubSeq(s, 1, Len(s) - 1))
  ELSE s

\* str.strip()
str_strip(s) == rstrip(lstrip(s))

\* name.replace(" ", "_")
replace_space(s) == [i \in DOMAIN s |-> IF s[i] = " " THEN "_" ELSE s[i]]

\* "__" in name
has_double(s) ==
  \E i \in 1..(Len(s) - 1) : s[i] = "_" /\ s[i + 1] = "_"

\* name.replace("__", "_"): one left-to-right pass over non-overlapping pairs.
RECURSIVE replace_double(_)
replace_double(s) ==
  IF Len(s) < 2 THEN s
  ELSE IF s[1] = "_" /\ s[2] = "_"
       THEN <<"_">> \o replace_double(SubSeq(s, 3, Len(s)))
       ELSE <<s[1]>> \o replace_double(Tail(s))

\* while "__" in name: name = name.replace("__", "_")
RECURSIVE collapse(_)
collapse(s) == IF has_double(s) THEN collapse(replace_double(s)) ELSE s

normalize_col_name(name) ==
  collapse(replace_space(str_lower(str_strip(name))))

\* A plausible slip: the match key keeps the punctuation of the normalized name.
canonical_key_keeps_punct(name) == normalize_col_name(name)

canonical_key(name) ==
  SelectSeq(normalize_col_name(name), isalnum)

----------------------------------------------------------------------------
(* The alias resolver, _match_required_fields. *)

F_state_of_residence == <<"s", "t", "a", "t", "e", "_", "o", "f", "_", "r", "e", "s", "i", "d", "e", "n", "c", "e">>

F_month == <<"m", "o", "n", "t", "h">>

F_month_code == <<"m", "o", "n", "t", "h", "_", "c", "o", "d", "e">>

F_year_code == <<"y", "e", "a", "r", "_", "c", "o", "d", "e">>

F_sex_of_infant == <<"s", "e", "x", "_", "o", "f", "_", "i", "n", "f", "a", "n", "t">>

F_births == <<"b", "i", "r", "t", "h", "s">>

logical_fields ==
  <<F_state_of_residence, F_month, F_month_code, F_year_code, F_sex_of_infant,
    F_births>>

Fields == Range(logical_fields)

\* A plausible slip: "month" is registered as an alias of month_code too.
alias_map_overlapping ==
  (F_state_of_residence :> <<
       \* "stateofresidence"
       <<"s", "t", "a", "t", "e", "o", "f", "r", "e", "s", "i", "d", "e", "n", "c", "e">>,
       \* "stateresidence"
       <<"s", "t", "a", "t", "e", "r", "e", "s", "i", "d", "e", "n", "c", "e">>,
       \* "residencestate"
       <<"r", "e", "s", "i", "d", "e", "n", "c", "e", "s", "t", "a", "t", "e">>,
       \* "state"
       <<"s", "t", "a", "t", "e">>
     >>)
  @@ (F_month :> <<
       \* "month"
       <<"m", "o", "n", "t", "h">>
     >>)
  @@ (F_month_code :> <<
       \* "monthcode"
       <<"m", "o", "n", "t", "h", "c", "o", "d", "e">>,
       \* "month"
       <<"m", "o", "n", "t", "h">>
     >>)
  @@ (F_year_code :> <<
       \* "yearcode"
       <<"y", "e", "a", "r", "c", "o", "d", "e">>
     >>)
  @@ (F_sex_of_infant :> <<
       \* "sexofinfant"
       <<"s", "e", "x", "o", "f", "i", "n", "f", "a", "n", "t">>,
       \* "infantsex"
       <<"i", "n", "f", "a", "n", "t", "s", "e", "x">>,
       \* "sex"
       <<"s", "e", "x">>,
       \* "gender"
       <<"g", "e", "n", "d", "e", "r">>,
       \* "infantgender"
       <<"i", "n", "f", "a", "n", "t", "g", "e", "n", "d", "e", "r">>
     >>)
  @@ (F_births :> <<
       \* "births"
       <<"b", "i", "r", "t", "h", "s">>,
       \* "birthcount"
       <<"b", "i", "r", "t", "h", "c", "o", "u", "n", "t">>,
       \* "birthcounts"
       <<"b", "i", "r", "t", "h", "c", "o", "u", "n", "t", "s">>,
       \* "numberofbirths"
       <<"n", "u", "m", "b", "e", "r", "o", "f", "b", "i", "r", "t", "h", "s">>,
       \* "livebirths"
       <<"l", "i", "v", "e", "b", "i", "r", "t", "h", "s">>,
       \* "totalbirths"
       <<"t", "o", "t", "a", "l", "b", "i", "r", "t", "h", "s">>
     >>)

\* alias_map: each field's alias set, listed in the order the source writes it.
\* The order a Python set is iterated in is a separate input of the resolver.
alias_map ==
  (F_state_of_residence :> <<
       \* "stateofresidence"
       <<"s", "t", "a", "t", "e", "o", "f", "r", "e", "s", "i", "d", "e", "n", "c", "e">>,
       \* "stateresidence"
       <<"s", "t", "a", "t", "e", "r", "e", "s", "i", "d", "e", "n", "c", "e">>,
       \* "residencestate"
       <<"r", "e", "s", "i", "d", "e", "n", "c", "e", "s", "t", "a", "t", "e">>,
       \* "state"
       <<"s", "t", "a", "t", "e">>
     >>)
  @@ (F_month :> <<
       \* "month"
       <<"m", "o", "n", "t", "h">>
     >>)
  @@ (F_month_code :> <<
       \* "monthcode"
       <<"m", "o", "n", "t", "h", "c", "o", "d", "e">>
     >>)
  @@ (F_year_code :> <<
       \* "yearcode"
       <<"y", "e", "a", "r", "c", "o", "d", "e">>
     >>)
  @@ (F_sex_of_infant :> <<
       \* "sexofinfant"
       <<"s", "e", "x", "o", "f", "i", "n", "f", "a", "n", "t">>,
       \* "infantsex"
       <<"i", "n", "f", "a", "n", "t", "s", "e", "x">>,
       \* "sex"
       <<"s", "e", "x">>,
       \* "gender"
       <<"g", "e", "n", "d", "e", "r">>,
       \* "infantgender"
       <<"i", "n", "f", "a", "n", "t", "g", "e", "n", "d", "e", "r">>
     >>)
  @@ (F_births :> <<
       \* "births"
       <<"b", "i", "r", "t", "h", "s">>,
       \* "birthcount"
       <<"b", "i", "r", "t", "h", "c", "o", "u", "n", "t">>,
       \* "birthcounts"
       <<"b", "i", "r", "t", "h", "c", "o", "u", "n", "t", "s">>,
       \* "numberofbirths"
       <<"n", "u", "m", "b", "e", "r", "o", "f", "b", "i", "r", "t", "h", "s">>,
       \* "livebirths"
       <<"l", "i", "v", "e", "b", "i", "r", "t", "h", "s">>,
       \* "totalbirths"
       <<"t", "o", "t", "a", "l", "b", "i", "r", "t", "h", "s">>
     >>)

\* target_ck = _canonical_key(field), for each field of logical_fields.
target_ck_of == [f \in Fields |-> canonical_key(f)]

\* canonical_to_cols: every canonical key of the list, with the columns that
\* have it, in list order (a name listed twice is kept twice).
canonical_to_cols(cols) ==
  LET keys == [i \in DOMAIN cols |-> canonical_key(cols[i])]
      positions(ck) ==
        SelectSeq([i \in DOMAIN cols |-> i], LAMBDA i : keys[i] = ck)
  IN  [ck \in Range(keys) |->
         [j \in DOMAIN positions(ck) |-> cols[positions(ck)[j]]]]

\* for alias_ck in <the set, in iteration order>: extend candidates
RECURSIVE alias_candidates(_, _)
alias_candidates(iteration, ctc) ==
  IF iteration = <<>> THEN <<>>
  ELSE (IF Head(iteration) \in DOMAIN ctc THEN ctc[Head(iteration)] ELSE <<>>)
       \o alias_candidates(Tail(iteration), ctc)

\* deduped: the candidates without repeats, first-seen order kept.
RECURSIVE dedup(_)
dedup(candidates) ==
  IF candidates = <<>> THEN <<>>
  ELSE LET front == dedup(SubSeq(candidates, 1, Len(candidates) - 1))
           last == candidates[Len(candidates)]
       IN  IF last \in Range(front) THEN front ELSE Append(front, last)

\* A plausible slip: the exact-name shortcut is left out.
match_field_no_exact(field, cols, ctc, iteration) ==
  LET target_ck == target_ck_of[field]
      own == IF target_ck \in DOMAIN ctc THEN ctc[target_ck] ELSE <<>>
      deduped == dedup(own \o alias_candidates(iteration, ctc))
  IN  IF Len(deduped) = 1 THEN <<deduped[1]>> ELSE <<>>

\* A plausible slip: any candidate list that is not empty binds its first.
match_field_first_candidate(field, cols, ctc, iteration) ==
  IF field \in Range(cols) THEN <<field>>
  ELSE LET target_ck == target_ck_of[field]
           own == IF target_ck \in DOMAIN ctc THEN ctc[target_ck] ELSE <<>>
           deduped == dedup(own \o alias_candidates(iteration, ctc))
       IN  IF Len(deduped) >= 1 THEN <<deduped[1]>> ELSE <<>>

\* One turn of the loop over logical_fields: <<column>> when the field is
\* bound, <<>> when it is left out of matched. iteration is the order the
\* field's alias set is iterated in.
match_field(field, cols, ctc, iteration) ==
  IF field \in Range(cols) THEN <<field>>
  ELSE LET target_ck == target_ck_of[field]
           own == IF target_ck \in DOMAIN ctc THEN ctc[target_ck] ELSE <<>>
           deduped == dedup(own \o alias_candidates(iteration, ctc))
       IN  IF Len(deduped) = 1 THEN <<deduped[1]>> ELSE <<>>

\* The order a field's alias set is iterated in: order[f][i] is the place, in
\* the source's listing of alias_map[f], of the alias iterated i-th.
iteration_of(f, order) ==
  [i \in DOMAIN alias_map[f] |-> alias_map[f][order[f][i]]]

\* The loop over logical_fields and the missing list, given the index ctc of
\* the columns: matched is a dict (a function on the bound fields), missing
\* a list in the order of logical_fields.
resolve_fields(cols, ctc, order) ==
  LET bound == [f \in Fields |->
                  match_field(f, cols, ctc, iteration_of(f, order))]
      matched == [f \in {g \in Fields : bound[g] # <<>>} |-> bound[f][1]]
  IN  [matched |-> matched,
       missing |-> SelectSeq(logical_fields, LAMBDA f : f \notin DOMAIN matched)]

\* _match_required_fields(columns), in a run that iterates the alias sets in
\* the given order.
match_required_fields(cols, order) ==
  resolve_fields(cols, canonical_to_cols(cols), order)

\* rename_to_logical = {actual: logical for logical, actual in matched.items()}
\* A later item of matched (in the order of logical_fields) overwrites an
\* earlier one with the same actual column.
rename_to_logical(matched) ==
  [actual \in {matched[f] : f \in DOMAIN matched} |->
     LET at == {i \in DOMAIN logical_fields :
                  /\ logical_fields[i] \in DOMAIN matched
                  /\ matched[logical_fields[i]] = actual}
     IN  logical_fields[CHOOSE i \in at : \A j \in at : j <= i]]

\* The order the source lists the aliases in.
ListedOrder == [f \in Fields |-> [i \in DOMAIN alias_map[f] |-> i]]

\* The iteration orders of the alias sets: a Python set of str has no fixed
\* order across runs. A field's binding reads only that field's own set, so
\* the orders enumerated permute one field's set at a time.
AliasOrders ==
  UNION {{[ListedOrder EXCEPT ![f] = q] : q \in Permutations(DOMAIN alias_map[f])} :
           f \in Fields}

----------------------------------------------------------------------------
(* Values and tables of pandas, as load_data uses them. *)

\* A cell value: a str, a number, or NaN (pandas' absent value).
Str(s) == [t |-> "str", s |-> s, n |-> 0]

Num(n) == [t |-> "num", s |-> <<>>, n |-> n]

NaN == [t |-> "nan", s |-> <<>>, n |-> 0]

\* None, for each component load_data returns.
NoTable == [present |-> FALSE, columns |-> <<>>, rows |-> <<>>]

NoDetail == [present |-> FALSE, value |-> <<>>]

NoMatched == [present |-> FALSE, map |-> <<>>]

\* The cell texts pd.read_csv reads as NaN by default, among those enumerated.
na_values == {<<>>, <<"N", "/", "A">>}

\* pd.read_csv on a readable file: the header as written, a RangeIndex from 0,
\* every cell a str or NaN. (The dtype a column is inferred to have is not
\* kept: pd.to_numeric below gives a numeric cell the number read_csv would.)
read_csv(f) ==
  [present |-> TRUE,
   columns |-> f.header,
   rows |-> [r \in DOMAIN f.rows |->
               [index |-> r - 1,
                cells |-> [i \in DOMAIN f.rows[r] |->
                             IF f.rows[r][i] \in na_values THEN NaN
                             ELSE Str(f.rows[r][i])]]]]

DigitValue == [ch \in DigitChars |->
                 CHOOSE d \in 0..9 :
                   <<"0", "1", "2", "3", "4", "5", "6", "7", "8", "9">>[d + 1] = ch]

RECURSIVE parse_digits(_)
parse_digits(s) ==
  IF s = <<>> THEN 0
  ELSE 10 * parse_digits(SubSeq(s, 1, Len(s) - 1)) + DigitValue[s[Len(s)]]

\* pd.to_numeric(value, errors="coerce") on one cell: a str of digits is its
\* number, any other str and NaN are NaN.
to_numeric(v) ==
  IF v.t = "num" THEN v
  ELSE IF v.t = "str" /\ v.s # <<>> /\ \A i \in DOMAIN v.s : v.s[i] \in DigitChars
       THEN Num(parse_digits(v.s))
       ELSE NaN

\* .astype(str).str.strip() on one cell of a text column: NaN becomes "nan".
astype_str_strip(v) ==
  IF v.t = "nan" THEN Str(<<"n", "a", "n">>)
  ELSE Str(str_strip(v.s))

\* The positions of the columns labelled name.
positions_of(cols, name) == {i \in DOMAIN cols : cols[i] = name}

\* df[name] is a Series when one column has the label, a DataFrame when
\* several have it.
is_series(cols, name) == Cardinality(positions_of(cols, name)) = 1

\* df[name] = pd.to_numeric(df[name], errors="coerce"), for a label held by
\* one column.
to_numeric_column(rows, cols, name) ==
  [r \in DOMAIN rows |->
     [rows[r] EXCEPT !.cells =
        [i \in DOMAIN @ |-> IF cols[i] = name THEN to_numeric(@[i]) ELSE @[i]]]]

\* df[name] = df[name].astype(str).str.strip(), for a label held by one
\* column.
strip_column(rows, cols, name) ==
  [r \in DOMAIN rows |->
     [rows[r] EXCEPT !.cells =
        [i \in DOMAIN @ |-> IF cols[i] = name THEN astype_str_strip(@[i])
                                               ELSE @[i]]]]

\* A plausible slip: a row with any absent cell is dropped.
dropna_any(rows, cols, name) ==
  SelectSeq(rows, LAMBDA row : \A i \in DOMAIN row.cells : row.cells[i].t # "nan")

\* df.dropna(subset=[name]): the rows whose cell under name is not NaN, in
\* order, each with its index label.
dropna(rows, cols, name) ==
  SelectSeq(rows,
            LAMBDA row : \A i \in positions_of(cols, name) : row.cells[i].t # "nan")

\* df.rename(columns=rename): every label that is a key gets its value.
rename_columns(cols, rename) ==
  [i \in DOMAIN cols |->
     IF cols[i] \in DOMAIN rename THEN rename[cols[i]] ELSE cols[i]]

Returned(table, status, detail, matched) ==
  [outcome |-> "returned", table |-> table, status |-> status,
   detail |-> detail, matched |-> matched, error |-> "none"]

\* The call ends by an exception that load_data does not catch.
Raised(error) ==
  [outcome |-> "raised", table |-> NoTable, status |-> "none",
   detail |-> NoDetail, matched |-> NoMatched, error |-> error]

NotCalled ==
  [outcome |-> "none", table |-> NoTable, status |-> "none",
   detail |-> NoDetail, matched |-> NoMatched, error |-> "none"]

\* str(e) of the exception pd.read_csv raised on an unreadable file.
read_error_message == <<"e", "r", "r", "o", "r">>

\* Lines 112-121, on the renamed table: coercion, row drop, trimming. A label
\* held by several columns makes df[label] a DataFrame, on which
\* pd.to_numeric raises TypeError and .str raises AttributeError.
coerce_table(cols, rows0, matched) ==
  IF ~is_series(cols, F_births) THEN Raised("TypeError")
  ELSE
    LET rows1 == to_numeric_column(rows0, cols, F_births)
        rows2 == dropna(rows1, cols, F_births)
    IN  IF \E c \in {F_state_of_residence, F_month, F_sex_of_infant} :
             ~is_series(cols, c)
        THEN Raised("AttributeError")
        ELSE
          LET rows3 == strip_column(rows2, cols, F_state_of_residence)
              rows4 == strip_column(rows3, cols, F_month)
              rows5 == strip_column(rows4, cols, F_sex_of_infant)
          IN  IF ~is_series(cols, F_month_code) \/ ~is_series(cols, F_year_code)
              THEN Raised("TypeError")
              ELSE
                LET rows6 == to_numeric_column(rows5, cols, F_month_code)
                    rows7 == to_numeric_column(rows6, cols, F_year_code)
                IN  Returned([present |-> TRUE, columns |-> cols, rows |-> rows7],
                             "ok", NoDetail,
                             [present |-> TRUE, map |-> matched])

\* The body of load_data, run on the file f with the alias sets iterated in
\* the given order.
load_data_body(f, order) ==
  IF f.kind = "absent"
  THEN Returned(NoTable, "file_not_found", NoDetail, NoMatched)
  ELSE IF f.kind = "unreadable"
  THEN Returned(NoTable, "read_error",
                [present |-> TRUE, value |-> <<read_error_message>>], NoMatched)
  ELSE
    LET df == read_csv(f)
        cols == [i \in DOMAIN df.columns |-> normalize_col_name(df.columns[i])]
        r == match_required_fields(cols, order)
    IN  IF r.missing # <<>>
        THEN Returned([df EXCEPT !.columns = cols], "missing_columns",
                      [present |-> TRUE, value |-> r.missing],
                      [present |-> TRUE, map |-> r.matched])
        ELSE coerce_table(rename_columns(cols, rename_to_logical(r.matched)),
                          df.rows, r.matched)

----------------------------------------------------------------------------
(* Idle values of the variables a specification does not use. *)

NoFile == [kind |-> "absent", header |-> <<>>, rows |-> <<>>]

NoCache == [filled |-> FALSE, value |-> NotCalled]

NoResult == [called |-> FALSE]

----------------------------------------------------------------------------
(* The resolver called directly on a column list. *)

H_Births == <<"B", "i", "r", "t", "h", "s">>

H_BirthCount == <<"B", "i", "r", "t", "h", " ", "C", "o", "u", "n", "t">>

H_LiveBirths == <<"L", "i", "v", "e", " ", "B", "i", "r", "t", "h", "s">>

\* The names a directly given column list is drawn from: exact field names,
\* a case variant, and two aliases of the same field. A list may name a
\* column twice.
ColumnPool == {F_births, H_Births, H_BirthCount, H_LiveBirths, F_month}

ColumnLists == UNION {[1..k -> ColumnPool] : k \in 0..MaxCols}

ResolveInit ==
  /\ columns \in ColumnLists
  /\ result = NoResult
  /\ file = NoFile
  /\ cache = NoCache
  /\ ret = NotCalled
  /\ file_at_call = NoFile
  /\ nameA = <<>>
  /\ nameB = <<>>

\* matched, missing = _match_required_fields(columns), in a run whose alias
\* sets are iterated in the order `order`.
Resolve ==
  /\ ~result.called
  /\ LET ctc == canonical_to_cols(columns)
     IN  \E order \in AliasOrders :
           LET r == resolve_fields(columns, ctc, order)
           IN  result' = [called |-> TRUE, order |-> order,
                          matched |-> r.matched, missing |-> r.missing]
  /\ UNCHANGED <<file, cache, ret, file_at_call, columns, nameA, nameB>>

ResolveNext == Resolve

SpecResolve == ResolveInit /\ [][ResolveNext]_vars

\* C2: a field whose exact name is a column of the list is bound to that
\* column, whatever other columns canonicalize to its key or to an alias.
C2_ExactNamePrecedence ==
  result.called =>
    \A f \in Fields :
      f \in Range(columns) =>
        f \in DOMAIN result.matched /\ result.matched[f] = f

\* "births" is listed beside a case variant and beside an alias of births.
C2_Witness ==
  /\ result.called
  /\ F_births \in Range(columns)
  /\ \E c \in Range(columns) : c # F_births /\ canonical_key(c) = F_births
  /\ result.matched[F_births] = F_births

\* C7: the resolver returns the same (matched, missing) whatever order the
\* alias sets are iterated in: the result of any order is the result of the
\* order the source lists the aliases in.
C7_ResolverDeterminism ==
  result.called =>
    match_required_fields(columns, ListedOrder) =
      [matched |-> result.matched, missing |-> result.missing]

\* Two aliases of births are columns, and the alias set was iterated with
\* "livebirths" first, which the source lists after "birthcount".
C7_Witness ==
  /\ result.called
  /\ columns = <<H_BirthCount, H_LiveBirths>>
  /\ iteration_of(F_births, result.order)[1] = canonical_key(H_LiveBirths)
  /\ result.order # ListedOrder
  /\ F_births \notin DOMAIN result.matched

\* C9: no two logical fields of matched are bound to the same column, so
\* the rename map has one entry per bound field.
C9_BindingInjective ==
  result.called =>
    /\ \A f, g \in DOMAIN result.matched :
         f # g => result.matched[f] # result.matched[g]
    /\ Cardinality(DOMAIN rename_to_logical(result.matched))
         = Cardinality(DOMAIN result.matched)

\* Two fields are bound, one by its exact name and one by an alias.
C9_Witness ==
  /\ result.called
  /\ DOMAIN result.matched = {F_month, F_births}
  /\ result.matched[F_births] = H_BirthCount
  /\ DOMAIN rename_to_logical(result.matched) = {F_month, H_BirthCount}

----------------------------------------------------------------------------
(* The CSV files load_data is run on. *)

H_StateOfResidence == <<"S", "t", "a", "t", "e", " ", "o", "f", " ", "R", "e", "s", "i", "d", "e", "n", "c", "e">>

H_State == <<"S", "t", "a", "t", "e">>

H_state == <<"s", "t", "a", "t", "e">>

H_ResidenceState == <<"R", "e", "s", "i", "d", "e", "n", "c", "e", " ", "S", "t", "a", "t", "e">>

H_Month == <<"M", "o", "n", "t", "h">>

H_MonthCode == <<"M", "o", "n", "t", "h", " ", "C", "o", "d", "e">>

H_MonthWideCode == <<"M", "o", "n", "t", "h", " ", " ", "C", "o", "d", "e">>

H_YearCode == <<"Y", "e", "a", "r", " ", "C", "o", "d", "e">>

H_SexOfInfant == <<"S", "e", "x", " ", "o", "f", " ", "I", "n", "f", "a", "n", "t">>

H_Gender == <<"G", "e", "n", "d", "e", "r">>

H_Birth_Count == <<"B", "i", "r", "t", "h", "-", "C", "o", "u", "n", "t">>

H_Notes == <<"N", "o", "t", "e", "s">>

H_notes == <<"n", "o", "t", "e", "s">>

\* The ways each part of a header is written: the field's own name, an alias,
\* two aliases of one field, two names that normalize to the same name, the
\* column left out, and columns that are no logical field. The raw names of
\* one header are distinct, as pd.read_csv makes them.
StateParts ==
  {<<H_StateOfResidence>>, <<H_State>>, <<H_State, H_ResidenceState>>,
   <<H_State, H_state>>}

MonthCodeParts == {<<H_MonthCode>>, <<H_MonthWideCode, F_month_code>>}

YearCodeParts == {<<H_YearCode>>, <<>>}

SexParts == {<<H_Gender>>}

BirthsParts ==
  {<<H_Births>>, <<H_BirthCount>>, <<F_births, H_Births>>,
   <<F_births, H_Birth_Count>>}

OtherParts == {<<>>, <<H_Notes, H_notes>>}

Headers ==
  {st \o <<H_Month>> \o mc \o yc \o sx \o bi \o ot :
     st \in StateParts, mc \in MonthCodeParts, yc \in YearCodeParts,
     sx \in SexParts, bi \in BirthsParts, ot \in OtherParts}

\* The rows of a file: what a row holds under a births column, a month code
\* column, a year code column, and any other column.
RowKinds ==
  {[births |-> <<"7">>, month_code |-> <<"3">>,
    year_code |-> <<"2", "0", "2", "5">>, text |-> <<" ", "C", "A", " ">>],
   [births |-> <<"u", "n", "k", "n", "o", "w", "n">>, month_code |-> <<"3">>,
    year_code |-> <<"2", "0", "2", "5">>, text |-> <<"T", "X">>],
   [births |-> <<>>, month_code |-> <<"N", "/", "A">>,
    year_code |-> <<"2", "0", "2", "5">>, text |-> <<"T", "X">>],
   [births |-> <<"1", "2">>, month_code |-> <<"N", "/", "A">>,
    year_code |-> <<"x">>, text |-> <<" ", "C", "A", " ">>]}

\* What a column of the given raw name holds: counts of births, month codes,
\* year codes, or text.
holds(name) ==
  LET ck == canonical_key(name)
  IN  IF ck \in {target_ck_of[F_births], canonical_key(H_BirthCount)}
      THEN "births"
      ELSE IF ck = target_ck_of[F_month_code] THEN "month_code"
      ELSE IF ck = target_ck_of[F_year_code] THEN "year_code"
      ELSE "text"

RowKindLists == UNION {[1..k -> RowKinds] : k \in 0..MaxRows}

AbsentFile == [kind |-> "absent", header |-> <<>>, rows |-> <<>>]

UnreadableFile == [kind |-> "unreadable", header |-> <<>>, rows |-> <<>>]

\* The file with the given header whose rows are of the given kinds; under[i]
\* is what column i holds.
CsvFile(header, under, kinds) ==
  [kind |-> "csv", header |-> header,
   rows |-> [r \in DOMAIN kinds |->
               [i \in DOMAIN header |-> kinds[r][under[i]]]]]

\* The alias sets iterated as the source lists them, and the other way round.
LoadOrders ==
  {ListedOrder,
   [f \in Fields |-> [i \in DOMAIN alias_map[f] |-> Len(alias_map[f]) + 1 - i]]}

----------------------------------------------------------------------------
(* load_data under st.cache_data: it takes no argument, so the cache holds *)
(* one entry, filled by the first call that returns.                        *)

Init ==
  /\ \/ file \in {AbsentFile, UnreadableFile}
     \/ \E h \in Headers :
          LET under == [i \in DOMAIN h |-> holds(h[i])]
          IN  \E ks \in RowKindLists : file = CsvFile(h, under, ks)
  /\ cache = NoCache
  /\ ret = NotCalled
  /\ file_at_call = NoFile
  /\ columns = <<>>
  /\ result = NoResult
  /\ nameA = <<>>
  /\ nameB = <<>>

\* load_data() with no cache entry: the body runs; what it returns is stored,
\* an exception is stored nowhere and reaches the caller.
LoadDataMiss ==
  /\ ~cache.filled
  /\ \E order \in LoadOrders :
       LET out == load_data_body(file, order)
       IN  /\ ret' = out
           /\ cache' = IF out.outcome = "returned"
                       THEN [filled |-> TRUE, value |-> out]
                       ELSE cache
  /\ file_at_call' = file
  /\ UNCHANGED <<file, columns, result, nameA, nameB>>

\* load_data() with a cache entry: the stored value is returned, the body
\* does not run and the file is not read.
LoadDataHit ==
  /\ cache.filled
  /\ ret' = cache.value
  /\ file_at_call' = file
  /\ UNCHANGED <<file, cache, columns, result, nameA, nameB>>

Next == LoadDataMiss \/ LoadDataHit

\* Calls of load_data on a file that does not change.
Spec == Init /\ [][Next]_vars

\* The files of the runs in which the file changes between calls.
CacheHeaders ==
  {<<H_StateOfResidence, H_Month, H_MonthCode, H_YearCode, H_SexOfInfant,
     H_Births>>,
   <<H_State, H_ResidenceState, H_Month, H_MonthCode, H_YearCode, H_Gender,
     H_BirthCount>>}

CacheFiles ==
  {AbsentFile, UnreadableFile}
    \cup {CsvFile(h, [i \in DOMAIN h |-> holds(h[i])], <<k>>) :
            h \in CacheHeaders, k \in RowKinds}

CacheInit ==
  /\ file \in CacheFiles
  /\ cache = NoCache
  /\ ret = NotCalled
  /\ file_at_call = NoFile
  /\ columns = <<>>
  /\ result = NoResult
  /\ nameA = <<>>
  /\ nameB = <<>>

\* The file is created, deleted or rewritten between two calls.
ChangeFile ==
  /\ \E f \in CacheFiles : f # file /\ file' = f
  /\ UNCHANGED <<cache, ret, file_at_call, columns, result, nameA, nameB>>

CacheNext == LoadDataMiss \/ LoadDataHit \/ ChangeFile

\* Calls of load_data interleaved with changes of the file.
SpecCache == CacheInit /\ [][CacheNext]_vars

----------------------------------------------------------------------------
(* The claims about load_data. *)

\* The header of the file the last call was made on, as load_data
\* normalizes it.
NormalizedHeader ==
  [i \in DOMAIN file_at_call.header |->
     normalize_col_name(file_at_call.header[i])]

\* The keys a logical field would match: its own canonical key and its
\* aliases.
KeysOf(f) == {canonical_key(f)} \cup Range(alias_map[f])

\* C1: when two columns (two header positions) canonicalize to the same key,
\* and that key is one a logical field would match, the field is reported
\* missing and is bound to neither column.
C1_AmbiguitySafety ==
  (ret.outcome = "returned" /\ ret.matched.present) =>
    \A f \in Fields :
      (\E i, j \in DOMAIN NormalizedHeader :
         /\ i # j
         /\ canonical_key(NormalizedHeader[i]) = canonical_key(NormalizedHeader[j])
         /\ canonical_key(NormalizedHeader[i]) \in KeysOf(f))
      => /\ ret.status = "missing_columns"
         /\ f \in Range(ret.detail.value)
         /\ f \notin DOMAIN ret.matched.map

\* C3: whenever load_data returns ok, the header of the returned table holds
\* each of the six logical field names and no column name twice.
C3_RoundTrip ==
  (ret.outcome = "returned" /\ ret.status = "ok") =>
    /\ \A f \in Fields : f \in Range(ret.table.columns)
    /\ \A i, j \in DOMAIN ret.table.columns :
         i # j => ret.table.columns[i] # ret.table.columns[j]

\* C4: every call of load_data ends by returning one of the four statuses;
\* no exception reaches the caller.
C4_StatusAlwaysReturned ==
  ret.outcome # "none" =>
    /\ ret.outcome = "returned"
    /\ ret.status \in {"ok", "file_not_found", "read_error", "missing_columns"}

\* Whether a cell text of the file coerces to a number.
CoercesToNumber(text) ==
  text # <<>> /\ \A i \in DOMAIN text : text[i] \in DigitChars

\* The one position of the returned table's header that holds the label.
PositionOf(label) ==
  CHOOSE i \in DOMAIN ret.table.columns : ret.table.columns[i] = label

\* The file's rows (numbered from 1) whose births cell coerces to a number.
KeptRows ==
  SelectSeq([r \in DOMAIN file.rows |-> r],
            LAMBDA r : CoercesToNumber(file.rows[r][PositionOf(F_births)]))

\* C5: whenever load_data returns ok, the rows of the returned table are the
\* file's rows whose births value coerces to a number, in the file's order;
\* a row whose month_code or year_code does not coerce is kept, with that
\* value absent.
C5_RowDropLaw ==
  (ret.outcome = "returned" /\ ret.status = "ok") =>
    /\ Len(ret.table.rows) = Len(KeptRows)
    /\ \A k \in DOMAIN ret.table.rows :
         LET row == ret.table.rows[k]
             src == file.rows[KeptRows[k]]
         IN  /\ row.index = KeptRows[k] - 1
             /\ row.cells[PositionOf(F_births)].t = "num"
             /\ \A c \in {F_month_code, F_year_code} :
                  row.cells[PositionOf(c)].t =
                    IF CoercesToNumber(src[PositionOf(c)]) THEN "num" ELSE "nan"

\* Of two rows, the first is dropped for its births value and the second is
\* kept although neither its month_code nor its year_code coerces.
C5_Witness ==
  /\ ret.outcome = "returned"
  /\ ret.status = "ok"
  /\ Len(file.rows) = 2
  /\ Len(ret.table.rows) = 1
  /\ ret.table.rows[1].index = 1
  /\ ret.table.rows[1].cells[PositionOf(F_births)] = Num(12)
  /\ ret.table.rows[1].cells[PositionOf(F_month_code)] = NaN
  /\ ret.table.rows[1].cells[PositionOf(F_year_code)] = NaN

\* C6: every call of load_data returns what a fresh, uncached load of the
\* file as it is at the moment of the call would return.
C6_MemoizationTransparent ==
  ret.outcome # "none" => ret = load_data_body(file_at_call, ListedOrder)

\* C10: on a readable file load_data returns missing_columns exactly when
\* the resolver leaves a field unbound, and ok otherwise; on missing_columns
\* the detail is the unbound fields in declaration order and the table is the
\* file as read, under its normalized header.
C10_MissingColumnsExactly ==
  (ret.outcome # "none" /\ file_at_call.kind = "csv") =>
    LET r == match_required_fields(NormalizedHeader, ListedOrder)
    IN  /\ ret.outcome = "returned"
        /\ ret.status = IF r.missing # <<>> THEN "missing_columns" ELSE "ok"
        /\ ret.status = "missing_columns" =>
             /\ ret.detail.value =
                  SelectSeq(logical_fields,
                            LAMBDA f : f \notin DOMAIN ret.matched.map)
             /\ ret.table.columns = NormalizedHeader
             /\ ret.table.rows = read_csv(file_at_call).rows

----------------------------------------------------------------------------
(* The canonical-key law: raw names and their variants. *)

KeyAlphabet == {"a", "B", "1", " ", "-", "_"}

Separators == {" ", "-", "_"}

NamesUpTo(n) == UNION {[1..k -> KeyAlphabet] : k \in 0..n}

InsertAt(s, i, ch) == SubSeq(s, 1, i) \o <<ch>> \o SubSeq(s, i + 1, Len(s))

RemoveAt(s, i) == SubSeq(s, 1, i - 1) \o SubSeq(s, i + 1, Len(s))

\* A space is internal when a non-space character stands somewhere before it
\* and somewhere after it.
InternalSpace(s, i) ==
  /\ i \in DOMAIN s
  /\ s[i] = " "
  /\ \E j \in 1..(i - 1) : s[j] # " "
  /\ \E j \in (i + 1)..Len(s) : s[j] # " "

KeyInit ==
  /\ nameA \in NamesUpTo(MaxNameLen)
  /\ nameB = nameA
  /\ file = NoFile
  /\ cache = NoCache
  /\ ret = NotCalled
  /\ file_at_call = NoFile
  /\ columns = <<>>
  /\ result = NoResult

\* The variant changes the case of one letter.
ChangeCase ==
  /\ \E i \in DOMAIN nameB :
       /\ IsUpper(nameB[i]) \/ IsLower(nameB[i])
       /\ nameB' = [nameB EXCEPT ![i] = IF IsUpper(@) THEN char_lower(@)
                                                       ELSE char_upper(@)]
  /\ UNCHANGED <<file, cache, ret, file_at_call, columns, result, nameA>>

\* The variant uses another of space, hyphen, underscore at one position.
ChangeSeparator ==
  /\ \E i \in DOMAIN nameB : \E sep \in Separators :
       /\ nameB[i] \in Separators
       /\ sep # nameB[i]
       /\ nameB' = [nameB EXCEPT ![i] = sep]
  /\ UNCHANGED <<file, cache, ret, file_at_call, columns, result, nameA>>

\* The variant widens an internal run of spaces by one space.
WidenSpaces ==
  /\ Len(nameB) < MaxNameLen + 1
  /\ \E i \in DOMAIN nameB :
       /\ InternalSpace(nameB, i)
       /\ nameB' = InsertAt(nameB, i, " ")
  /\ UNCHANGED <<file, cache, ret, file_at_call, columns, result, nameA>>

\* The variant narrows an internal run of two or more spaces by one space.
NarrowSpaces ==
  /\ \E i \in DOMAIN nameB :
       /\ InternalSpace(nameB, i)
       /\ InternalSpace(nameB, i + 1)
       /\ nameB' = RemoveAt(nameB, i)
  /\ UNCHANGED <<file, cache, ret, file_at_call, columns, result, nameA>>

KeyNext == ChangeCase \/ ChangeSeparator \/ WidenSpaces \/ NarrowSpaces

SpecKey == KeyInit /\ [][KeyNext]_vars

\* C8: raw names that differ only in letter case, in the width of internal
\* runs of spaces, or in using a space, a hyphen or an underscore at the same
\* position have the same canonical key.
C8_CanonicalKeyOfVariants == canonical_key(nameA) = canonical_key(nameB)

\* A variant that differs from the original in all three ways at once.
C8_Witness ==
  /\ nameA # nameB
  /\ Len(nameB) > Len(nameA)
  /\ \E i \in DOMAIN nameA : isalnum(nameA[i]) /\ ~(nameA[i] \in Range(nameB))
  /\ \E i \in DOMAIN nameB : nameB[i] = "_"
  /\ ~(\E i \in DOMAIN nameA : nameA[i] = "_")

====
